---- MODULE Spec2Model ----
(***************************************************************************)
(* Model of the yield_curve_interpolation package:                         *)
(*   pricing.py                    bond schedule, cash flows, pricing      *)
(*   utils.py                      spot_to_discount                        *)
(*   traditional_interpolation.py  the six curve-fitting strategies        *)
(*                                                                         *)
(* Numbers.  Python floats are modelled by exact rationals <<n, d>>; a     *)
(* year fraction days/365.25 is the rational 4*days/1461; a rate is given  *)
(* in percent, so r percent stands for the float r/100.  A discount factor *)
(* exp(-r*t) or (1+r/f)^(-f*t) is kept as the term that defines it (its    *)
(* kind and its arguments), never evaluated, and a price is the formal sum *)
(* of the products cash flow * discount factor in the order Python's sum   *)
(* adds them.                                                              *)
(***************************************************************************)
EXTENDS Integers, Sequences, FiniteSets, TLC

VARIABLES
    \* ---- the bond object (pricing.py, class bond)
    id, face_value, coupon_rate, payment_freq,
    first_coupon_date, maturity_date, today,
    all_payment_dates,      \* self.__all_payment_dates
    all_cash_flows,         \* self.__all_cash_flows
    \* ---- the constructor's position and the locals of get_all_payment_dates
    pc,                     \* "walk" | "ready" | "idle"
    payment_dates, current_date,
    \* ---- the last bond operation called and what it returned or raised
    ret,
    opt_result,             \* what scipy's minimize reported to calc_ytm
    \* ---- one fit call of a curve-fitting strategy
    fit_pc,                 \* "idle" | "unfit" | "fit" | "raised"
    strategy, known_maturities, known_values,
    params,                 \* the parameter set the interpolant is bound to
    converged,              \* what the optimizer reported, for the parametric fits
    last_eval,              \* the last evaluation of the interpolant
    \* ---- one call of spot_to_discount
    rate_pc,                \* "idle" | "call" | "returned" | "raised"
    zero_rates, maturities, compounding_freq, continuous,
    discount_data,
    \* ---- one round trip fwd_to_discount, then discount_to_fwd
    fwd_pc,                 \* "idle" | "call" | "discounted" | "done"
    forward_rates, mat_ranges,
    fwd_discount,           \* what fwd_to_discount returned
    fwd_back,               \* what discount_to_fwd returned for it
    \* ---- the module pricing.py over time
    clock,                  \* the day datetime.date.today() returns now
    default_today,          \* the default of __init__'s parameter today
    built                   \* the bonds constructed so far, oldest first

bondVars == <<id, face_value, coupon_rate, payment_freq, first_coupon_date,
              maturity_date, today, all_payment_dates, all_cash_flows, pc,
              payment_dates, current_date, ret, opt_result>>
fitVars == <<fit_pc, strategy, known_maturities, known_values, params,
             converged, last_eval>>
rateVars == <<rate_pc, zero_rates, maturities, compounding_freq, continuous,
              discount_data>>
fwdVars == <<fwd_pc, forward_rates, mat_ranges, fwd_discount, fwd_back>>
clockVars == <<clock, default_today, built>>
vars == <<bondVars, fitVars, rateVars, fwdVars, clockVars>>

(***************************************************************************)
(* Bounds                                                                  *)
(***************************************************************************)
\* the walk of get_all_payment_dates is cut off at this many appended dates
MaxSched == 8
\* longest known-maturity vector handed to a fit
MaxNodes == 3
\* largest maturity (in years) of a node or of a spot_to_discount input
MaxMat == 3

(***************************************************************************)
(* Rational arithmetic (Python float arithmetic, kept exact)               *)
(***************************************************************************)
Abs(x) == IF x < 0 THEN -x ELSE x

RECURSIVE GCD(_, _)
GCD(a, b) == IF b = 0 THEN a ELSE GCD(b, a % b)

\* the rational n/d in lowest terms with a positive denominator (d # 0)
Rat(n, d) ==
    LET g == GCD(Abs(n), Abs(d))
        s == IF d < 0 THEN -1 ELSE 1
    IN  <<(s * n) \div g, (s * d) \div g>>

RatInt(k) == <<k, 1>>
RatAdd(a, b) == Rat(a[1] * b[2] + b[1] * a[2], a[2] * b[2])
RatSub(a, b) == Rat(a[1] * b[2] - b[1] * a[2], a[2] * b[2])
RatMul(a, b) == Rat(a[1] * b[1], a[2] * b[2])
RatDiv(a, b) == Rat(a[1] * b[2], a[2] * b[1])
RatLess(a, b) == a[1] * b[2] < b[1] * a[2]
RatLeq(a, b) == a[1] * b[2] <= b[1] * a[2]

(***************************************************************************)
(* datetime.date: a date is [year, month, day]                             *)
(***************************************************************************)
Date(y, m, d) == [year |-> y, month |-> m, day |-> d]

IsLeap(y) == y % 4 = 0 /\ (y % 100 # 0 \/ y % 400 = 0)

DaysInMonth(y, m) ==
    IF m = 2 THEN (IF IsLeap(y) THEN 29 ELSE 28)
    ELSE IF m \in {4, 6, 9, 11} THEN 30 ELSE 31

RECURSIVE DaysBeforeMonth(_, _)
DaysBeforeMonth(y, m) ==
    IF m = 1 THEN 0 ELSE DaysBeforeMonth(y, m - 1) + DaysInMonth(y, m - 1)

DaysBeforeYear(y) ==
    LET p == y - 1 IN p * 365 + (p \div 4) - (p \div 100) + (p \div 400)

\* date.toordinal(): the order of dates and the base of date differences
Ordinal(dt) == DaysBeforeYear(dt.year) + DaysBeforeMonth(dt.year, dt.month) + dt.day

\* (a - b).days
DaysBetween(a, b) == Ordinal(a) - Ordinal(b)

DateLess(a, b) == Ordinal(a) < Ordinal(b)
DateLeq(a, b) == Ordinal(a) <= Ordinal(b)

\* (datetime.date(y, m, 1) - datetime.timedelta(days=1)).day: the last day of
\* the month before month m of year y
LastDayBefore(y, m) ==
    IF m = 1 THEN DaysInMonth(y - 1, 12) ELSE DaysInMonth(y, m - 1)

(***************************************************************************)
(* Inputs of the bond constructor and of its operations                    *)
(***************************************************************************)
Ids == {"B1"}
FaceValues == {100}
\* coupon_rate 0.05
CouponRates == {Rat(1, 20)}
\* <= 0 is a zero-coupon bond; 5 does not divide 12; 13 is above 12
Freqs == {-1, 0, 1, 4, 5, 12, 13}
DateSet == {Date(2023, 11, 30), Date(2024, 1, 31), Date(2024, 2, 29),
            Date(2024, 3, 15), Date(2024, 5, 31)}
\* zero rates: a curve of r0, r0 + slope, r0 + 2*slope, ... percent
ZeroRateStarts == {3}
ZeroRateSlopes == {0, 1}
ZeroRateVectors(n) ==
    {[i \in 1..n |-> Rat(r0 + (i - 1) * s, 100)] :
        r0 \in ZeroRateStarts, s \in ZeroRateSlopes}
\* (compounding_freq, continuous); compounding_freq is not read when continuous
Compoundings == {<<1, TRUE>>, <<0, FALSE>>, <<2, FALSE>>}
\* the points scipy's minimize may stop at: 4 and 5 percent
YtmSolutions == {Rat(4, 100), Rat(5, 100)}
\* float('nan'), written 0/0
NaN == <<0, 0>>

(***************************************************************************)
(* utils.py: spot_to_discount                                              *)
(***************************************************************************)
\* numpy's a / b for floats: a zero b gives inf, -inf or nan (a warning, no
\* exception), written here n/0 with n the sign
NumpyDivide(a, b) ==
    IF b[1] = 0
    THEN <<(IF a[1] > 0 THEN 1 ELSE IF a[1] < 0 THEN -1 ELSE 0), 0>>
    ELSE RatDiv(a, b)

\* 1 + x, where x may be inf, -inf or nan
OnePlus(x) == IF x[2] = 0 THEN x ELSE RatAdd(RatInt(1), x)

\* one element of discount_factors: exp(-r*t), or 1 / (1 + r/f) ** (f*t)
DiscountFactor(r, t, f, cont) ==
    IF cont
    THEN [kind |-> "exp", base |-> RatInt(0), exponent |-> RatMul(r, t)]
    ELSE [kind |-> "pow", base |-> OnePlus(NumpyDivide(r, RatInt(f))),
          exponent |-> RatMul(RatInt(f), t)]

\* spot_to_discount: {0: maturities, 1: discount_factors}; no input is refused
spot_to_discount(zr, mats, f, cont) ==
    [kind |-> "value",
     mats |-> mats,
     dfs |-> [i \in 1..Len(mats) |-> DiscountFactor(zr[i], mats[i], f, cont)]]

(***************************************************************************)
(* pricing.py: price_bond and the methods of class bond                    *)
(***************************************************************************)
Min(a, b) == IF a < b THEN a ELSE b

\* sum(cf * df for cf, df in zip(cash_flows, discount_factors))
price_bond(cfs, mats, zr, f, cont) ==
    LET dfs == spot_to_discount(zr, mats, f, cont).dfs
    IN  [i \in 1..Min(Len(cfs), Len(dfs)) |-> [cf |-> cfs[i], df |-> dfs[i]]]

\* a[:n], the first n entries
SliceFirst(a, n) == SubSeq(a, 1, n)

\* line 90 with <= for <
WalkContinuesLeq(cur, mat) == DateLeq(cur, mat)

\* line 90: while current_date < self.maturity_date
WalkContinues(cur, mat) == DateLess(cur, mat)

\* lines 92-96: the date one coupon period after cur
NextPaymentDate(cur, pf) ==
    LET month0 == cur.month + (12 \div pf)
        year == cur.year + ((month0 - 1) \div 12)
        month == ((month0 - 1) % 12) + 1
        day == Min(cur.day, LastDayBefore(year + (month \div 12), (month % 12) + 1))
    IN  Date(year, month, day)

\* get_all_cash_flows with the face value added to the first flow, not the last
get_all_cash_flows_first(sched, fv, cr, pf) ==
    IF pf <= 0
    THEN <<RatAdd(RatInt(fv), RatMul(RatInt(fv), cr))>>
    ELSE LET coupon == RatDiv(RatMul(RatInt(fv), cr), RatInt(pf))
         IN  [i \in 1..Len(sched) |->
                 IF i = 1 THEN RatAdd(coupon, RatInt(fv)) ELSE coupon]

\* get_all_cash_flows, given the schedule
get_all_cash_flows(sched, fv, cr, pf) ==
    IF pf <= 0
    THEN <<RatAdd(RatInt(fv), RatMul(RatInt(fv), cr))>>
    ELSE LET coupon == RatDiv(RatMul(RatInt(fv), cr), RatInt(pf))
         IN  [i \in 1..Len(sched) |->
                 IF i = Len(sched) THEN RatAdd(coupon, RatInt(fv)) ELSE coupon]

\* (date - self.today).days / 365.25
YearFraction(dt, td) == Rat(4 * DaysBetween(dt, td), 1461)

IsPositive(x) == x[1] > 0

\* the property maturities: maturities[maturities > 0]
Maturities(sched, td) ==
    SelectSeq([i \in 1..Len(sched) |-> YearFraction(sched[i], td)], IsPositive)

\* a[-n:] for 0 <= n <= len(a): Python reads -0 as 0, the whole list
SliceLast(a, n) ==
    IF n = 0 THEN a ELSE SubSeq(a, Len(a) - n + 1, Len(a))

\* the property cash_flows
CashFlows(sched, cfs, td) == SliceLast(cfs, Len(Maturities(sched, td)))

\* calc_price
CalcPrice(sched, cfs, td, zr, f, cont) ==
    price_bond(CashFlows(sched, cfs, td), Maturities(sched, td), zr, f, cont)

PastDates(sched, td) == {i \in 1..Len(sched) : DateLeq(sched[i], td)}
FutureDates(sched, td) == {i \in 1..Len(sched) : DateLess(td, sched[i])}
\* max(...) and min(...) over dates, by index into the schedule
MaxDate(sched, I) == sched[CHOOSE i \in I : \A j \in I : DateLeq(sched[j], sched[i])]
MinDate(sched, I) == sched[CHOOSE i \in I : \A j \in I : DateLeq(sched[i], sched[j])]

Raise(op, exc) == [op |-> op, kind |-> "raise", val |-> exc]
Return(op, v) == [op |-> op, kind |-> "value", val |-> v]

\* accrued_interest: max() and min() of an empty generator raise ValueError
AccruedInterest(sched, td, fv, cr, pf) ==
    IF PastDates(sched, td) = {} \/ FutureDates(sched, td) = {}
    THEN Raise("accrued_interest", "ValueError")
    ELSE IF pf = 0
    THEN Raise("accrued_interest", "ZeroDivisionError")
    ELSE LET last_coupon_date == MaxDate(sched, PastDates(sched, td))
             next_coupon_date == MinDate(sched, FutureDates(sched, td))
             days_since_last_coupon == DaysBetween(td, last_coupon_date)
             days_between_coupons == DaysBetween(next_coupon_date, last_coupon_date)
         IN  Return("accrued_interest",
                    RatMul(RatDiv(RatMul(RatInt(fv), cr), RatInt(pf)),
                           Rat(days_since_last_coupon, days_between_coupons)))

\* calc_clean_price: dirty_price - accrued_interest, kept as the two terms
CalcCleanPrice(sched, cfs, td, fv, cr, pf, zr, f, cont) ==
    LET dirty_price == CalcPrice(sched, cfs, td, zr, f, cont)
        accrued == AccruedInterest(sched, td, fv, cr, pf)
    IN  IF accrued.kind = "raise"
        THEN Raise("calc_clean_price", accrued.val)
        ELSE Return("calc_clean_price",
                    [dirty_price |-> dirty_price, accrued_interest |-> accrued.val])

\* calc_ytm returning the point minimize stopped at, converged or not
YtmResultUnchecked(result) == Return("calc_ytm", result.x)

\* the tail of calc_ytm, lines 217-221
YtmResult(result) ==
    IF result.success THEN Return("calc_ytm", result.x) ELSE Return("calc_ytm", NaN)

(***************************************************************************)
(* The values the variables of the other components hold while one         *)
(* component runs                                                          *)
(***************************************************************************)
NoRet == [op |-> "none", kind |-> "value", val |-> <<>>]
NoOptResult == [success |-> FALSE, x |-> NaN]

BondIdle ==
    /\ id = "" /\ face_value = 0 /\ coupon_rate = RatInt(0) /\ payment_freq = 0
    /\ first_coupon_date = Date(1, 1, 1) /\ maturity_date = Date(1, 1, 1)
    /\ today = Date(1, 1, 1)
    /\ all_payment_dates = <<>> /\ all_cash_flows = <<>>
    /\ pc = "idle" /\ payment_dates = <<>> /\ current_date = Date(1, 1, 1)
    /\ ret = NoRet /\ opt_result = NoOptResult

FitIdle ==
    /\ fit_pc = "idle" /\ strategy = "none"
    /\ known_maturities = <<>> /\ known_values = <<>>
    /\ params = <<>> /\ converged = FALSE /\ last_eval = <<>>

RateIdle ==
    /\ rate_pc = "idle" /\ zero_rates = <<>> /\ maturities = <<>>
    /\ compounding_freq = 1 /\ continuous = FALSE /\ discount_data = <<>>

FwdIdle ==
    /\ fwd_pc = "idle" /\ forward_rates = <<>> /\ mat_ranges = <<>>
    /\ fwd_discount = <<>> /\ fwd_back = <<>>

ClockIdle ==
    clock = 0 /\ default_today = 0 /\ built = <<>>

(***************************************************************************)
(* The bond: construction (bond.__init__, lines 59-68)                     *)
(***************************************************************************)
\* lines 59-65 have assigned the fields, and get_all_payment_dates is entered
Init ==
    /\ id \in Ids
    /\ face_value \in FaceValues
    /\ coupon_rate \in CouponRates
    /\ payment_freq \in Freqs
    /\ first_coupon_date \in DateSet
    /\ maturity_date \in DateSet
    /\ today \in DateSet
    /\ all_payment_dates = <<>>
    /\ all_cash_flows = <<>>
    /\ pc = "walk"
    /\ payment_dates = <<>>
    /\ current_date = first_coupon_date
    /\ ret = NoRet
    /\ opt_result = NoOptResult
    /\ FitIdle
    /\ RateIdle
    /\ FwdIdle
    /\ ClockIdle

bondStatic == <<id, face_value, coupon_rate, payment_freq, first_coupon_date,
                maturity_date>>
bondCached == <<all_payment_dates, all_cash_flows>>
walkLocals == <<payment_dates, current_date>>

\* __init__ with payment_freq <= 0: the schedule is [maturity_date] (line 87),
\* then get_all_cash_flows
ZeroCouponSchedule ==
    /\ pc = "walk"
    /\ payment_freq <= 0
    /\ all_payment_dates' = <<maturity_date>>
    /\ all_cash_flows' =
           get_all_cash_flows(<<maturity_date>>, face_value, coupon_rate, payment_freq)
    /\ pc' = "ready"
    /\ UNCHANGED <<bondStatic, today, walkLocals, ret, opt_result, fitVars, rateVars, fwdVars, clockVars>>

\* one turn of the while loop, lines 90-96
WalkStep ==
    /\ pc = "walk"
    /\ payment_freq >= 1
    /\ WalkContinues(current_date, maturity_date)
    /\ Len(payment_dates) < MaxSched
    /\ payment_dates' = Append(payment_dates, current_date)
    /\ current_date' = NextPaymentDate(current_date, payment_freq)
    /\ UNCHANGED <<bondStatic, today, bondCached, pc, ret, opt_result, fitVars, rateVars, fwdVars, clockVars>>

\* the loop ends: lines 97-98, then get_all_cash_flows (line 68)
WalkExit ==
    /\ pc = "walk"
    /\ payment_freq >= 1
    /\ ~WalkContinues(current_date, maturity_date)
    /\ all_payment_dates' = Append(payment_dates, maturity_date)
    /\ all_cash_flows' =
           get_all_cash_flows(Append(payment_dates, maturity_date),
                              face_value, coupon_rate, payment_freq)
    /\ pc' = "ready"
    /\ UNCHANGED <<bondStatic, today, walkLocals, ret, opt_result, fitVars, rateVars, fwdVars, clockVars>>

(***************************************************************************)
(* The bond: its operations                                                *)
(***************************************************************************)
\* set_today that also cuts the cached schedule down to the future dates
set_today_refresh(new_today) ==
    /\ pc = "ready"
    /\ today' = new_today
    /\ all_payment_dates' =
           SliceLast(all_payment_dates, Len(Maturities(all_payment_dates, new_today)))
    /\ all_cash_flows' = CashFlows(all_payment_dates, all_cash_flows, new_today)
    /\ ret' = Return("set_today", <<>>)
    /\ UNCHANGED <<bondStatic, pc, walkLocals, opt_result, fitVars, rateVars, fwdVars, clockVars>>

set_today(new_today) ==
    /\ pc = "ready"
    /\ today' = new_today
    /\ ret' = Return("set_today", <<>>)
    /\ UNCHANGED <<bondStatic, bondCached, pc, walkLocals, opt_result, fitVars, rateVars, fwdVars, clockVars>>

SetToday == \E new_today \in DateSet : set_today(new_today)

\* an operation that only reads the bond
Query(r) ==
    /\ pc = "ready"
    /\ ret' = r
    /\ UNCHANGED <<bondStatic, today, bondCached, pc, walkLocals, fitVars, rateVars, fwdVars, clockVars>>

GetMaturities ==
    /\ Query(Return("maturities", Maturities(all_payment_dates, today)))
    /\ UNCHANGED opt_result

GetCashFlows ==
    /\ Query(Return("cash_flows", CashFlows(all_payment_dates, all_cash_flows, today)))
    /\ UNCHANGED opt_result

\* calc_price with a zero-rate vector aligned with maturities
calc_price ==
    \E zr \in ZeroRateVectors(Len(Maturities(all_payment_dates, today))),
       c \in Compoundings :
        /\ Query(Return("calc_price",
                        [zero_rates |-> zr, compounding_freq |-> c[1],
                         continuous |-> c[2],
                         price |-> CalcPrice(all_payment_dates, all_cash_flows, today,
                                             zr, c[1], c[2])]))
        /\ UNCHANGED opt_result

accrued_interest ==
    /\ Query(AccruedInterest(all_payment_dates, today, face_value, coupon_rate,
                             payment_freq))
    /\ UNCHANGED opt_result

calc_clean_price ==
    \E zr \in ZeroRateVectors(Len(Maturities(all_payment_dates, today))),
       c \in Compoundings :
        /\ Query(CalcCleanPrice(all_payment_dates, all_cash_flows, today, face_value,
                                coupon_rate, payment_freq, zr, c[1], c[2]))
        /\ UNCHANGED opt_result

\* calc_ytm: minimize (scipy) stops at some point and reports success or not
calc_ytm ==
    \E result \in [success : BOOLEAN, x : YtmSolutions] :
        /\ opt_result' = result
        /\ Query(YtmResult(result))

Next ==
    \/ ZeroCouponSchedule
    \/ WalkStep
    \/ WalkExit
    \/ SetToday
    \/ GetMaturities
    \/ GetCashFlows
    \/ calc_price
    \/ accrued_interest
    \/ calc_clean_price
    \/ calc_ytm

Spec == Init /\ [][Next]_vars

(***************************************************************************)
(* utils.py: calls of spot_to_discount                                     *)
(***************************************************************************)
RECURSIVE SeqsUpTo(_, _)
\* the sequences over S of length 1..n
SeqsUpTo(S, n) ==
    IF n = 0 THEN {} ELSE SeqsUpTo(S, n - 1) \cup [1..n -> S]

\* a maturity of -1 year is a negative maturity
RateMaturities == (-1)..MaxMat
RateCompoundings == {<<1, TRUE>>, <<-1, FALSE>>, <<0, FALSE>>, <<1, FALSE>>, <<2, FALSE>>}

InitRate ==
    /\ BondIdle
    /\ FitIdle
    /\ FwdIdle
    /\ ClockIdle
    /\ rate_pc = "call"
    /\ \E ms \in SeqsUpTo(RateMaturities, MaxNodes), zr \in ZeroRateVectors(MaxNodes) :
          /\ maturities = [i \in 1..Len(ms) |-> RatInt(ms[i])]
          /\ zero_rates = [i \in 1..Len(ms) |-> zr[i]]
    /\ \E c \in RateCompoundings : compounding_freq = c[1] /\ continuous = c[2]
    /\ discount_data = <<>>

\* the call returns or raises what spot_to_discount does
SpotToDiscount ==
    /\ rate_pc = "call"
    /\ LET r == spot_to_discount(zero_rates, maturities, compounding_freq, continuous)
       IN  IF r.kind = "raise"
           THEN rate_pc' = "raised" /\ discount_data' = <<>>
           ELSE rate_pc' = "returned" /\ discount_data' = r.dfs
    /\ UNCHANGED <<zero_rates, maturities, compounding_freq, continuous, bondVars, fitVars, fwdVars, clockVars>>

NextRate == SpotToDiscount

SpecRate == InitRate /\ [][NextRate]_vars

(***************************************************************************)
(* traditional_interpolation.py: the fit of each strategy                  *)
(*                                                                         *)
(* A known maturity is a whole number of years.  A known discount factor   *)
(* is the term exp(-x), so that -np.log of it is x.  A fit returns         *)
(* [kind |-> "value", params |-> what the returned interpolant is bound    *)
(* to] or [kind |-> "raise", exc |-> the exception].                       *)
(***************************************************************************)
Strategies == {"linear", "cubic_spline", "Hermite", "monotone_convex",
               "Nelson_Siegel", "Svensson"}
Parametric == {"Nelson_Siegel", "Svensson"}
OnDiscountFactors == {"linear", "Hermite"}

FitReturn(p) == [kind |-> "value", params |-> p, exc |-> ""]
FitRaise(e) == [kind |-> "raise", params |-> <<>>, exc |-> e]

\* not np.any(np.diff(maturities) <= 0)
StrictlyIncreasingNodes(mats) ==
    \A i \in 1..(Len(mats) - 1) : mats[i] < mats[i + 1]

\* -np.log(df)
NegLog(df) == df.exponent

\* an entry of np.empty_like(...) that was never assigned
Uninitialized == <<0, 0>>

\* linear_interpolation: no check of maturities; the closure holds maturities, RT
linear_interpolation(dfs, mats) ==
    FitReturn([maturities |-> mats, RT |-> [i \in 1..Len(dfs) |-> NegLog(dfs[i])]])

\* scipy's CubicSpline and PchipInterpolator refuse fewer than 2 points and an
\* x that is not strictly increasing with ValueError
ScipySpline(x, y) ==
    IF Len(x) < 2 \/ ~StrictlyIncreasingNodes(x)
    THEN FitRaise("ValueError")
    ELSE FitReturn([x |-> x, y |-> y])

cubic_spline_interpolation(zr, mats) == ScipySpline(mats, zr)

monotone_convex_interpolation(zr, mats) == ScipySpline(mats, zr)

\* lines 90-94: f_nodes, from np.empty_like(dfs)
HermiteNodes(f_intervals, n) ==
    [i \in 1..n |->
        IF i = n THEN f_intervals[n - 1]
        ELSE IF i = 1 THEN f_intervals[1]
        ELSE IF n > 2
        THEN RatMul(Rat(1, 2), RatAdd(f_intervals[i - 1], f_intervals[i]))
        ELSE Uninitialized]

\* Hermite_interpolation: one node passes the check and fails at f_intervals[0]
Hermite_interpolation(dfs, mats) ==
    IF ~StrictlyIncreasingNodes(mats)
    THEN FitRaise("ValueError")
    ELSE IF Len(mats) < 2
    THEN FitRaise("IndexError")
    ELSE LET n == Len(mats)
             f_intervals ==
                 [i \in 1..(n - 1) |->
                     RatDiv(RatSub(NegLog(dfs[i + 1]), NegLog(dfs[i])),
                            RatInt(mats[i + 1] - mats[i]))]
         IN  FitReturn([maturities |-> mats, dfs |-> dfs,
                        f_nodes |-> HermiteNodes(f_intervals, n)])

\* what curve_fit (scipy, with bounds and maxfev=20000) does: it returns the
\* optimal parameters, or raises RuntimeError at the iterate it stopped at
CurveFitOutcomes(k) ==
    {[ok |-> ok, popt |-> [i \in 1..k |-> RatInt(v)]] : ok \in BOOLEAN, v \in {0, 1}}

\* a fit that keeps the iterate curve_fit stopped at when it raised
ParametricFitSwallow(res) == FitReturn([popt |-> res.popt])

\* lines 175-186 and 233-245: curve_fit is called outside any try, and the
\* closure is built from params only after it returned
ParametricFit(res) ==
    IF res.ok THEN FitReturn([popt |-> res.popt]) ELSE FitRaise("RuntimeError")

\* Nelson_Siegel_interpolation: no check of maturities
Nelson_Siegel_interpolation(zr, mats, res) == ParametricFit(res)

\* Svensson_interpolation: maturities are sorted (lines 204-206), none refused
Svensson_interpolation(zr, mats, res) == ParametricFit(res)

(***************************************************************************)
(* traditional_interpolation.py: evaluating an interpolant                 *)
(***************************************************************************)
Number(q) == [kind |-> "number", num |-> q]
\* a value computed inside scipy from the parameters, not worked out here
Symbolic == [kind |-> "symbolic", num |-> <<0, 0>>]
\* np.interp on x-coordinates that are not increasing: "the results are nonsense"
Unspecified == [kind |-> "unspecified", num |-> <<0, 0>>]

\* np.interp(x, xp, fp) for strictly increasing xp: the end values outside
\* the nodes, the chord between the two neighbouring nodes inside
NpInterp(x, xp, fp) ==
    LET n == Len(xp)
    IN  IF x <= xp[1] THEN fp[1]
        ELSE IF x >= xp[n] THEN fp[n]
        ELSE LET j == CHOOSE k \in 1..(n - 1) : xp[k] <= x /\ x < xp[k + 1]
                 slope == RatDiv(RatSub(fp[j + 1], fp[j]), RatInt(xp[j + 1] - xp[j]))
             IN  RatAdd(fp[j], RatMul(slope, RatInt(x - xp[j])))

\* linear_interpolation.interpolate, lines 29-32
LinearInterpolate(p, t) ==
    IF ~StrictlyIncreasingNodes(p.maturities)
    THEN Unspecified
    ELSE Number(NumpyDivide(NpInterp(t, p.maturities, p.RT), RatInt(t)))

\* Hermite_interpolation.interpolate_, lines 100-114
HermiteInterpolate(p, t) ==
    IF t > 0 THEN Symbolic ELSE Number(p.f_nodes[1])

\* nelson_siegel(t, *params), lines 167-172: at t = 0 np.where picks the
\* factor 1.0, and exp(-x) is 1
NelsonSiegelInterpolate(p, t) ==
    IF t = 0
    THEN LET factor == RatInt(1)
         IN  Number(RatAdd(RatAdd(p.popt[1], RatMul(p.popt[2], factor)),
                           RatMul(p.popt[3], RatSub(factor, RatInt(1)))))
    ELSE Symbolic

\* svensson(t, *params), lines 209-217: at t = 0, x < 1e-6 and
\* _load_ns_component is 1 - x/2 + x**2/6 = 1
SvenssonInterpolate(p, t) ==
    IF t = 0
    THEN LET L1 == RatInt(1)
             L2 == RatSub(L1, RatInt(1))
             L3 == RatSub(RatInt(1), RatInt(1))
         IN  Number(RatAdd(RatAdd(p.popt[1], RatMul(p.popt[2], L1)),
                           RatAdd(RatMul(p.popt[3], L2), RatMul(p.popt[4], L3))))
    ELSE Symbolic

Interpolate(s, p, t) ==
    IF s = "linear" THEN LinearInterpolate(p, t)
    ELSE IF s = "Hermite" THEN HermiteInterpolate(p, t)
    ELSE IF s = "Nelson_Siegel" THEN NelsonSiegelInterpolate(p, t)
    ELSE IF s = "Svensson" THEN SvenssonInterpolate(p, t)
    ELSE Symbolic

(***************************************************************************)
(* One fit call and the evaluations of what it returned                    *)
(***************************************************************************)
\* known values: rates of v, v + 1, ... percent at the nodes
FitRates(n) == {[i \in 1..n |-> Rat(v + i - 1, 100)] : v \in {2, 3}}

InitFit ==
    /\ BondIdle
    /\ RateIdle
    /\ FwdIdle
    /\ ClockIdle
    /\ fit_pc = "unfit"
    /\ strategy \in Strategies
    /\ known_maturities \in SeqsUpTo(1..MaxMat, MaxNodes)
    /\ \E zr \in FitRates(Len(known_maturities)) :
          known_values =
              IF strategy \in OnDiscountFactors
              THEN [i \in 1..Len(known_maturities) |->
                       DiscountFactor(zr[i], RatInt(known_maturities[i]), 1, TRUE)]
              ELSE zr
    /\ params = <<>>
    /\ converged = FALSE
    /\ last_eval = <<>>

fitInputs == <<strategy, known_maturities, known_values>>

\* the fit call ends: an interpolant bound to r.params, or an exception
EndFit(r) ==
    /\ fit_pc' = IF r.kind = "raise" THEN "raised" ELSE "fit"
    /\ params' = r.params
    /\ UNCHANGED <<fitInputs, last_eval, bondVars, rateVars, fwdVars, clockVars>>

FitLinear ==
    /\ fit_pc = "unfit" /\ strategy = "linear"
    /\ EndFit(linear_interpolation(known_values, known_maturities))
    /\ UNCHANGED converged

FitCubicSpline ==
    /\ fit_pc = "unfit" /\ strategy = "cubic_spline"
    /\ EndFit(cubic_spline_interpolation(known_values, known_maturities))
    /\ UNCHANGED converged

FitHermite ==
    /\ fit_pc = "unfit" /\ strategy = "Hermite"
    /\ EndFit(Hermite_interpolation(known_values, known_maturities))
    /\ UNCHANGED converged

FitMonotoneConvex ==
    /\ fit_pc = "unfit" /\ strategy = "monotone_convex"
    /\ EndFit(monotone_convex_interpolation(known_values, known_maturities))
    /\ UNCHANGED converged

FitNelsonSiegel ==
    /\ fit_pc = "unfit" /\ strategy = "Nelson_Siegel"
    /\ \E res \in CurveFitOutcomes(4) :
          /\ converged' = res.ok
          /\ EndFit(Nelson_Siegel_interpolation(known_values, known_maturities, res))

FitSvensson ==
    /\ fit_pc = "unfit" /\ strategy = "Svensson"
    /\ \E res \in CurveFitOutcomes(6) :
          /\ converged' = res.ok
          /\ EndFit(Svensson_interpolation(known_values, known_maturities, res))

\* the interpolant is called on one target maturity
Evaluate ==
    /\ fit_pc = "fit"
    /\ \E t \in 0..(MaxMat + 1) :
          last_eval' = [target |-> t, value |-> Interpolate(strategy, params, t)]
    /\ UNCHANGED <<fit_pc, fitInputs, params, converged, bondVars, rateVars, fwdVars, clockVars>>

NextFit ==
    \/ FitLinear
    \/ FitCubicSpline
    \/ FitHermite
    \/ FitMonotoneConvex
    \/ FitNelsonSiegel
    \/ FitSvensson
    \/ Evaluate

SpecFit == InitFit /\ [][NextFit]_vars

(***************************************************************************)
(* utils.py: forward rates, under continuous compounding                   *)
(*                                                                         *)
(* A float is a rational <<n, d>>, or inf, -inf, nan written 1/0, -1/0,    *)
(* 0/0; numpy's arithmetic on them raises nothing.                         *)
(***************************************************************************)
IsFinite(a) == a[2] # 0
IsNaN(a) == a[2] = 0 /\ a[1] = 0
Sign(a) == IF a[1] > 0 THEN 1 ELSE IF a[1] < 0 THEN -1 ELSE 0

FloatMul(a, b) ==
    IF IsFinite(a) /\ IsFinite(b) THEN RatMul(a, b)
    ELSE <<Sign(a) * Sign(b), 0>>

FloatSub(a, b) ==
    IF IsFinite(a) /\ IsFinite(b) THEN RatSub(a, b)
    ELSE IF IsNaN(a) \/ IsNaN(b) THEN NaN
    ELSE IF ~IsFinite(a) /\ ~IsFinite(b)
    THEN (IF Sign(a) = Sign(b) THEN NaN ELSE <<Sign(a), 0>>)
    ELSE IF IsFinite(a) THEN <<-Sign(b), 0>> ELSE <<Sign(a), 0>>

FloatDiv(a, b) ==
    IF IsFinite(a) /\ IsFinite(b) THEN NumpyDivide(a, b)
    ELSE IF IsNaN(a) \/ IsNaN(b) THEN NaN
    ELSE IF IsFinite(a) THEN RatInt(0)
    ELSE IF ~IsFinite(b) THEN NaN
    ELSE <<Sign(a) * (IF b[1] < 0 THEN -1 ELSE 1), 0>>

RECURSIVE SumExponents(_, _)
SumExponents(dfs, i) ==
    IF i = 0 THEN RatInt(0) ELSE RatAdd(SumExponents(dfs, i - 1), dfs[i].exponent)

\* the discount factors left as they are, with no running product
NoCumProd(dfs) == dfs

\* np.cumprod of factors exp(-x): exp(-(x1 + ... + xi))
CumProd(dfs) ==
    [i \in 1..Len(dfs) |->
        [kind |-> "exp", base |-> RatInt(0), exponent |-> SumExponents(dfs, i)]]

\* fwd_to_discount(forward_rates, mat_ranges, continuous=True)
fwd_to_discount(fwd, ranges) ==
    LET mat_diffs == [i \in 1..Len(ranges) |-> RatSub(ranges[i][2], ranges[i][1])]
        dfs == spot_to_discount(fwd, mat_diffs, 1, TRUE).dfs
    IN  [mats |-> [i \in 1..Len(ranges) |-> ranges[i][2]],
         dfs |-> CumProd(dfs)]

\* discount_to_spot(..., continuous=True): -np.log(discount_factors) / maturities
discount_to_spot(dfs, mats) ==
    [i \in 1..Len(mats) |-> FloatDiv(dfs[i].exponent, mats[i])]

\* spot_to_fwd(..., continuous=True)
spot_to_fwd(zr, mats) ==
    [ranges |-> [i \in 1..Len(mats) |->
                    IF i = 1 THEN <<RatInt(0), mats[1]>> ELSE <<mats[i - 1], mats[i]>>],
     fwd |-> [i \in 1..Len(zr) |->
                 IF i = 1 THEN zr[1]
                 ELSE FloatDiv(FloatSub(FloatMul(zr[i], mats[i]),
                                        FloatMul(zr[i - 1], mats[i - 1])),
                               RatSub(mats[i], mats[i - 1]))]]

\* discount_to_fwd(..., continuous=True)
discount_to_fwd(dfs, mats) == spot_to_fwd(discount_to_spot(dfs, mats), mats)

\* the buckets [0, m[0]], [m[i-1], m[i]] of a maturity vector
BucketsOf(ms) ==
    [i \in 1..Len(ms) |->
        IF i = 1 THEN <<RatInt(0), RatInt(ms[1])>>
        ELSE <<RatInt(ms[i - 1]), RatInt(ms[i])>>]

\* forward rates of -1, 0 and 2 percent
FwdRates == {Rat(-1, 100), RatInt(0), Rat(2, 100)}

\* the strictly increasing maturity vectors, a zero first maturity included
IncreasingMaturities ==
    {ms \in SeqsUpTo(0..MaxMat, MaxNodes) :
        \A i \in 1..(Len(ms) - 1) : ms[i] < ms[i + 1]}

InitFwd ==
    /\ BondIdle
    /\ FitIdle
    /\ RateIdle
    /\ ClockIdle
    /\ fwd_pc = "call"
    /\ \E ms \in IncreasingMaturities :
          /\ mat_ranges = BucketsOf(ms)
          /\ forward_rates \in [1..Len(ms) -> FwdRates]
    /\ fwd_discount = <<>>
    /\ fwd_back = <<>>

FwdToDiscount ==
    /\ fwd_pc = "call"
    /\ fwd_discount' = fwd_to_discount(forward_rates, mat_ranges)
    /\ fwd_pc' = "discounted"
    /\ UNCHANGED <<forward_rates, mat_ranges, fwd_back,
                   bondVars, fitVars, rateVars, clockVars>>

DiscountToFwd ==
    /\ fwd_pc = "discounted"
    /\ fwd_back' = discount_to_fwd(fwd_discount.dfs, fwd_discount.mats)
    /\ fwd_pc' = "done"
    /\ UNCHANGED <<forward_rates, mat_ranges, fwd_discount,
                   bondVars, fitVars, rateVars, clockVars>>

NextFwd ==
    \/ FwdToDiscount
    \/ DiscountToFwd

SpecFwd == InitFwd /\ [][NextFwd]_vars

(***************************************************************************)
(* Properties of the bond                                                  *)
(***************************************************************************)
\* the indices of the scheduled payments dated strictly after today, ascending
FutureIndices ==
    LET After(i) == DateLess(today, all_payment_dates[i])
    IN  SelectSeq([i \in 1..Len(all_payment_dates) |-> i], After)

\* the sum, over the payments dated after today, of cash flow * discount factor
FuturePaymentsValue(zr, f, cont) ==
    [k \in 1..Len(FutureIndices) |->
        [cf |-> all_cash_flows[FutureIndices[k]],
         df |-> DiscountFactor(zr[k],
                               YearFraction(all_payment_dates[FutureIndices[k]], today),
                               f, cont)]]

\* C1: calc_price is the sum, over exactly the scheduled payments dated
\* strictly after today, of cash flow times discount factor; a payment dated
\* on or before today contributes nothing, and the price is the empty sum, 0,
\* when no scheduled payment is after today.
C1_PriceSumsFuturePayments ==
    (pc = "ready" /\ ret.op = "calc_price") =>
        /\ ret.val.price = FuturePaymentsValue(ret.val.zero_rates,
                                               ret.val.compounding_freq,
                                               ret.val.continuous)
        /\ (Len(FutureIndices) = 0 => ret.val.price = <<>>)

\* a price over some but not all of the scheduled payments
C1_Witness ==
    /\ pc = "ready" /\ ret.op = "calc_price"
    /\ Len(ret.val.price) >= 2
    /\ Len(ret.val.price) < Len(all_payment_dates)

\* C2: maturities has one entry per scheduled payment date strictly after
\* today, and cash_flows holds exactly the cash flows of those dates, in the
\* same order and of the same length (both empty when no payment is after
\* today).
C2_FutureViewsFollowToday ==
    /\ (pc = "ready" /\ ret.op = "maturities") =>
           ret.val = [k \in 1..Len(FutureIndices) |->
                         YearFraction(all_payment_dates[FutureIndices[k]], today)]
    /\ (pc = "ready" /\ ret.op = "cash_flows") =>
           ret.val = [k \in 1..Len(FutureIndices) |-> all_cash_flows[FutureIndices[k]]]

StrictlyIncreasing(sched) ==
    \A i \in 1..(Len(sched) - 1) : DateLess(sched[i], sched[i + 1])

\* C3: for payment_freq >= 1 the built schedule starts at first_coupon_date
\* (when that is before maturity_date), is strictly increasing, and holds only
\* dates strictly before maturity_date followed by maturity_date, once, as its
\* last entry; for payment_freq <= 0 it is the single entry maturity_date.
C3_ScheduleShape ==
    /\ (pc = "walk" /\ payment_dates # <<>>) => payment_dates[1] = first_coupon_date
    /\ pc = "ready" =>
          IF payment_freq >= 1
          THEN /\ all_payment_dates # <<>>
               /\ all_payment_dates[Len(all_payment_dates)] = maturity_date
               /\ \A i \in 1..(Len(all_payment_dates) - 1) :
                      DateLess(all_payment_dates[i], maturity_date)
               /\ StrictlyIncreasing(all_payment_dates)
               /\ DateLess(first_coupon_date, maturity_date) =>
                      all_payment_dates[1] = first_coupon_date
          ELSE all_payment_dates = <<maturity_date>>

\* a built schedule in which a walked date fell on maturity_date itself
C3_Witness ==
    /\ pc = "ready" /\ payment_freq >= 1
    /\ Len(all_payment_dates) >= 2
    /\ current_date = maturity_date

\* C4: the full cash-flow vector has one entry per scheduled date; for
\* payment_freq >= 1 every entry is face_value*coupon_rate/payment_freq except
\* the last, which is that coupon plus face_value; for payment_freq <= 0 it is
\* the single flow face_value + face_value*coupon_rate.
C4_CashFlowVector ==
    pc = "ready" =>
        /\ Len(all_cash_flows) = Len(all_payment_dates)
        /\ IF payment_freq >= 1
           THEN \A i \in 1..Len(all_cash_flows) :
                   LET flow == IF i = Len(all_cash_flows)
                               THEN RatSub(all_cash_flows[i], RatInt(face_value))
                               ELSE all_cash_flows[i]
                   IN  RatMul(flow, RatInt(payment_freq)) =
                           RatMul(RatInt(face_value), coupon_rate)
           ELSE /\ Len(all_cash_flows) = 1
                /\ RatSub(all_cash_flows[1], RatInt(face_value)) =
                       RatMul(RatInt(face_value), coupon_rate)

\* a coupon bond with at least two coupons before the redemption
C4_Witness ==
    pc = "ready" /\ payment_freq >= 1 /\ Len(all_cash_flows) >= 3

\* C5: for a coupon-paying bond and today strictly before maturity_date,
\* accrued_interest returns coupon * (today - last)/(next - last), last the
\* latest scheduled date <= today and next the earliest scheduled date >
\* today; the result is in [0, coupon) and is 0 on a scheduled payment date.
C5_AccruedInterestBeforeMaturity ==
    (pc = "ready" /\ ret.op = "accrued_interest" /\ payment_freq >= 1
        /\ DateLess(today, maturity_date)) =>
        LET coupon == RatDiv(RatMul(RatInt(face_value), coupon_rate),
                             RatInt(payment_freq))
        IN  /\ ret.kind = "value"
            /\ \E l, n \in 1..Len(all_payment_dates) :
                  /\ DateLeq(all_payment_dates[l], today)
                  /\ DateLess(today, all_payment_dates[n])
                  /\ \A j \in 1..Len(all_payment_dates) :
                        \/ DateLeq(all_payment_dates[j], all_payment_dates[l])
                        \/ DateLeq(all_payment_dates[n], all_payment_dates[j])
                  /\ RatMul(ret.val,
                            RatInt(DaysBetween(all_payment_dates[n],
                                               all_payment_dates[l]))) =
                         RatMul(coupon,
                                RatInt(DaysBetween(today, all_payment_dates[l])))
            /\ RatLeq(RatInt(0), ret.val)
            /\ RatLess(ret.val, coupon)
            /\ (\E i \in 1..Len(all_payment_dates) : all_payment_dates[i] = today)
                   => ret.val = RatInt(0)

\* C6: set_today changes only today; the cached schedule, the cached
\* cash-flow vector and the static terms are unchanged by every operation of a
\* constructed bond, and no operation but set_today changes today.
C6_OnlyTodayChanges ==
    [][pc = "ready" =>
          /\ bondStatic' = bondStatic
          /\ bondCached' = bondCached
          /\ (today' # today => ret'.op = "set_today")]_vars

\* set_today has moved today past the whole cached schedule
C6_Witness ==
    /\ pc = "ready" /\ ret.op = "set_today"
    /\ Len(all_payment_dates) >= 2
    /\ DateLess(maturity_date, today)

\* C7: calc_ytm returns the optimizer's solution when the optimizer reports
\* success and the not-a-number sentinel when it does not; it never raises
\* and returns nothing else.
C7_YtmSolutionOrSentinel ==
    (pc = "ready" /\ ret.op = "calc_ytm") =>
        /\ ret.kind = "value"
        /\ opt_result.success => ret.val = opt_result.x
        /\ ~opt_result.success => ret.val = NaN

\* calc_ytm has returned after the optimizer reported no convergence
C7_Witness ==
    pc = "ready" /\ ret.op = "calc_ytm" /\ ~opt_result.success

(***************************************************************************)
(* Properties of spot_to_discount                                          *)
(***************************************************************************)
\* C9: spot_to_discount fails with a domain error, producing no discount
\* factor, whenever a maturity is negative or continuous is False and
\* compounding_freq <= 0; otherwise it returns one discount factor per
\* input maturity.
C9_SpotToDiscountDomain ==
    rate_pc # "call" =>
        IF \/ \E i \in 1..Len(maturities) : maturities[i][1] < 0
           \/ (~continuous /\ compounding_freq <= 0)
        THEN rate_pc = "raised" /\ discount_data = <<>>
        ELSE rate_pc = "returned" /\ Len(discount_data) = Len(maturities)

(***************************************************************************)
(* Properties of the curve-fitting strategies                              *)
(***************************************************************************)
\* C8: every strategy rejects a known-maturity vector that is not strictly
\* increasing by raising at fit time, returning no interpolant.
C8_RejectsNonIncreasing ==
    (fit_pc \in {"fit", "raised"} /\ ~StrictlyIncreasingNodes(known_maturities)) =>
        (fit_pc = "raised" /\ params = <<>>)

\* every entry of the parameter set has been computed
ParamsComplete ==
    LET n == Len(known_maturities)
    IN  IF strategy = "linear"
        THEN Len(params.RT) = n /\ Len(params.maturities) = n
        ELSE IF strategy = "Hermite"
        THEN /\ Len(params.f_nodes) = n
             /\ \A i \in 1..n : params.f_nodes[i] # Uninitialized
        ELSE IF strategy \in Parametric
        THEN /\ converged
             /\ Len(params.popt) = (IF strategy = "Svensson" THEN 6 ELSE 4)
        ELSE Len(params.x) = n /\ Len(params.y) = n

\* once the fit call has ended, its outcome and the parameters stay as they are
FitOutcomeFrozen ==
    [][(fit_pc # "unfit") => (fit_pc' = fit_pc /\ params' = params)]_vars

\* C10: a fit call ends either with an interpolant bound to a completely
\* computed parameter set or with an exception and no interpolant; when the
\* Nelson-Siegel or Svensson optimizer does not converge the fit raises, and
\* no later evaluation changes the fitted parameters.
C10_FitAtomic ==
    /\ [](fit_pc = "fit" => ParamsComplete)
    /\ [](fit_pc = "raised" => params = <<>>)
    /\ []((fit_pc \in {"fit", "raised"} /\ strategy \in Parametric /\ ~converged)
             => fit_pc = "raised")
    /\ FitOutcomeFrozen

\* a Nelson-Siegel fit whose optimizer did not converge has raised
C10_Witness ==
    fit_pc = "raised" /\ strategy = "Nelson_Siegel" /\ ~converged

(***************************************************************************)
(* Properties of the forward-rate round trip                               *)
(***************************************************************************)
RoundTripReturnsInput ==
    /\ fwd_back.fwd = forward_rates
    /\ fwd_back.ranges = mat_ranges

\* C11 as stated: for every strictly increasing maturity vector, its buckets
\* and every forward-rate vector of the same length,
\* discount_to_fwd(fwd_to_discount(fwd, ranges)) returns fwd and ranges.
C11_RoundTripAnyMaturities ==
    fwd_pc = "done" => RoundTripReturnsInput

\* C11, amended: the same for every strictly increasing vector of positive
\* maturities (the first maturity is not 0).
C11_RoundTripPositiveMaturities ==
    (fwd_pc = "done" /\ mat_ranges[1][2][1] > 0) => RoundTripReturnsInput

\* a round trip over three buckets with forward rates that differ
C11_Witness ==
    /\ fwd_pc = "done"
    /\ Len(mat_ranges) = 3
    /\ mat_ranges[1][2][1] > 0
    /\ forward_rates[1] # forward_rates[2]
    /\ forward_rates[2] # forward_rates[3]

(***************************************************************************)
(* Properties of evaluating an interpolant                                 *)
(***************************************************************************)
\* the fitted linear interpolant has been evaluated; its nodes are at least
\* two and strictly increasing
LinearEvaluated ==
    /\ fit_pc = "fit" /\ strategy = "linear" /\ last_eval # <<>>
    /\ Len(known_maturities) >= 2
    /\ StrictlyIncreasingNodes(known_maturities)

\* the R*T value on the straight line through nodes j and j + 1, at t
OnSegment(j, t) ==
    LET x == known_maturities
        y == [i \in 1..Len(known_values) |-> NegLog(known_values[i])]
    IN  RatAdd(y[j], RatMul(RatDiv(RatSub(y[j + 1], y[j]), RatInt(x[j + 1] - x[j])),
                            RatInt(t - x[j])))

\* the segment the claim reads a target on: the bounding one outside the nodes
SegmentOf(t) ==
    LET x == known_maturities
        n == Len(known_maturities)
    IN  IF t < x[1] THEN 1
        ELSE IF t >= x[n] THEN n - 1
        ELSE CHOOSE j \in 1..(n - 1) : x[j] <= t /\ t < x[j + 1]

\* C12: for the linear-on-log-discount interpolant the interpolated R*T value
\* at a target beyond the node range continues with the slope of the last
\* (respectively first) segment, and between nodes it is the linear
\* interpolation of the two neighbouring R*T values.
C12_LinearExtension ==
    (LinearEvaluated /\ last_eval.target > 0) =>
        /\ last_eval.value.kind = "number"
        /\ RatMul(last_eval.value.num, RatInt(last_eval.target)) =
               OnSegment(SegmentOf(last_eval.target), last_eval.target)

\* the forward rate of the first interval, from the known discount factors
FirstIntervalForward ==
    RatDiv(RatSub(NegLog(known_values[2]), NegLog(known_values[1])),
           RatInt(known_maturities[2] - known_maturities[1]))

\* C14: evaluating a fitted interpolant at target maturity 0 returns a
\* defined value: Hermite the boundary forward rate of the first interval,
\* Nelson-Siegel the value with load factor 1, linear-on-log-discount a
\* defined yield.
C14_DefinedAtZero ==
    (fit_pc = "fit" /\ last_eval # <<>> /\ last_eval.target = 0
        /\ StrictlyIncreasingNodes(known_maturities)) =>
        /\ strategy = "Hermite" =>
               last_eval.value = Number(FirstIntervalForward)
        /\ strategy = "Nelson_Siegel" =>
               last_eval.value = Number(RatAdd(params.popt[1], params.popt[2]))
        /\ strategy = "linear" =>
               (last_eval.value.kind = "number" /\ IsFinite(last_eval.value.num))

(***************************************************************************)
(* The default valuation date of bond.__init__, pricing.py line 57:        *)
(*     today: datetime.date = datetime.date.today()                        *)
(* Python evaluates a default argument once, when the def statement runs   *)
(* (module load).  Days are counted from the day the module is loaded.     *)
(***************************************************************************)
MaxDays == 3
MaxBonds == 3

\* the state right after the module is loaded: the default is today's date
InitToday ==
    /\ BondIdle /\ FitIdle /\ RateIdle /\ FwdIdle
    /\ clock = 0
    /\ default_today = clock
    /\ built = <<>>

\* a day passes
Tick ==
    /\ clock < MaxDays
    /\ clock' = clock + 1
    /\ UNCHANGED <<default_today, built, bondVars, fitVars, rateVars, fwdVars>>

\* bond(...) without today: self.__today is the stored default
ConstructDefault ==
    /\ Len(built) < MaxBonds
    /\ built' = Append(built, [today |-> default_today, at |-> clock,
                               omitted |-> TRUE])
    /\ UNCHANGED <<clock, default_today, bondVars, fitVars, rateVars, fwdVars>>

\* bond(..., today=t): self.__today is the argument
ConstructExplicit ==
    /\ Len(built) < MaxBonds
    /\ \E t \in 0..MaxDays :
           built' = Append(built, [today |-> t, at |-> clock, omitted |-> FALSE])
    /\ UNCHANGED <<clock, default_today, bondVars, fitVars, rateVars, fwdVars>>

NextToday == Tick \/ ConstructDefault \/ ConstructExplicit

SpecToday == InitToday /\ [][NextToday]_vars

\* C13: a bond constructed without an explicit today gets today equal to the
\* current date at the moment of that construction, however much time has
\* passed since the module was loaded.
C13_DefaultTodayIsCurrent ==
    \A i \in 1..Len(built) : built[i].omitted => built[i].today = built[i].at

(***************************************************************************)
(* Termination of the schedule walk                                        *)
(***************************************************************************)
\* C15: for every positive payment_freq, each step of the walk in
\* get_all_payment_dates strictly advances the current date.
C15_WalkAdvances ==
    [][(payment_freq > 0 /\ pc = "walk" /\ pc' = "walk")
           => DateLess(current_date, current_date')]_vars

====
